---- MODULE Spec2Model ----
(***************************************************************************)
(* Model of src/http_server/request/cgi_request/cgi_response.rs:           *)
(* parse_cgi_response turns the captured output of a CGI script into a     *)
(* header map and a body, convert_cgi_response_to_http turns that into an  *)
(* HTTP response.  Strings are sequences of one-character strings.         *)
(***************************************************************************)
EXTENDS Integers, Sequences, FiniteSets, TLC

VARIABLES pc, cgi_output, cgi_response, handler_result, handled, built,
          http_response

vars == <<pc, cgi_output, cgi_response, handler_result, handled, built,
          http_response>>

\* The most lines a script output of the model has before its empty line.
MaxHeaderLines == 2

-----------------------------------------------------------------------------
(* Characters and the library functions the source calls                   *)

UpperCase ==
    <<"A","B","C","D","E","F","G","H","I","J","K","L","M",
      "N","O","P","Q","R","S","T","U","V","W","X","Y","Z">>

LowerCase ==
    <<"a","b","c","d","e","f","g","h","i","j","k","l","m",
      "n","o","p","q","r","s","t","u","v","w","x","y","z">>

Digits == <<"0","1","2","3","4","5","6","7","8","9">>

\* u8::to_ascii_lowercase, the comparison key of eq_ignore_ascii_case.
to_ascii_lowercase(c) ==
    IF \E i \in 1..Len(UpperCase) : UpperCase[i] = c
    THEN LowerCase[CHOOSE i \in 1..Len(UpperCase) : UpperCase[i] = c]
    ELSE c

eq_ignore_ascii_case(a, b) ==
    /\ Len(a) = Len(b)
    /\ \A i \in 1..Len(a) : to_ascii_lowercase(a[i]) = to_ascii_lowercase(b[i])

\* The variants of CGIResponseHeader.
CGIResponseHeader == {"ContentType", "Location", "Status"}

\* strum's serialize_all = "Train-Case" spelling of a variant.
TrainCase(h) ==
    CASE h = "ContentType" -> <<"C","o","n","t","e","n","t","-","T","y","p","e">>
      [] h = "Location" -> <<"L","o","c","a","t","i","o","n">>
      [] h = "Status" -> <<"S","t","a","t","u","s">>

\* Mutant of from_str: without ascii_case_insensitive.
from_str_case_sensitive(s) ==
    IF \E h \in CGIResponseHeader : s = TrainCase(h)
    THEN [ok |-> TRUE, key |-> CHOOSE h \in CGIResponseHeader : s = TrainCase(h)]
    ELSE [ok |-> FALSE, key |-> ""]

\* The result of CGIResponseHeader::from_str: Ok(variant) or Err.
from_str(s) ==
    IF \E h \in CGIResponseHeader : eq_ignore_ascii_case(s, TrainCase(h))
    THEN [ok |-> TRUE,
          key |-> CHOOSE h \in CGIResponseHeader :
                      eq_ignore_ascii_case(s, TrainCase(h))]
    ELSE [ok |-> FALSE, key |-> ""]

Min(S) == CHOOSE x \in S : \A y \in S : x <= y
Max(S) == CHOOSE x \in S : \A y \in S : x >= y

\* str::split_inclusive('\n'): the pieces keep their line feed, and an input
\* that ends in a line feed has no empty last piece.
RECURSIVE split_inclusive(_)
split_inclusive(s) ==
    IF s = <<>> THEN <<>>
    ELSE LET nl == {i \in 1..Len(s) : s[i] = "\n"}
             cut == IF nl = {} THEN Len(s) ELSE Min(nl)
         IN  <<SubSeq(s, 1, cut)>> \o split_inclusive(SubSeq(s, cut + 1, Len(s)))

\* The map of str::lines over one piece: a final "\n" is removed, and a "\r"
\* before it.
strip_line_ending(piece) ==
    LET n == Len(piece) IN
    IF n > 0 /\ piece[n] = "\n"
    THEN IF n > 1 /\ piece[n - 1] = "\r"
         THEN SubSeq(piece, 1, n - 2)
         ELSE SubSeq(piece, 1, n - 1)
    ELSE piece

\* cgi_output.lines(), as the sequence of the items the iterator yields.
lines(s) ==
    LET pieces == split_inclusive(s)
    IN  [i \in 1..Len(pieces) |-> strip_line_ending(pieces[i])]

\* Mutant of split_once: the value loses its leading spaces.
RECURSIVE trim_start(_)
trim_start(s) ==
    IF s # <<>> /\ Head(s) = " " THEN trim_start(Tail(s)) ELSE s

split_once_trimmed(line) ==
    LET at == {i \in 1..Len(line) : line[i] = ":"} IN
    IF at = {} THEN [some |-> FALSE, before |-> <<>>, after |-> <<>>]
    ELSE [some |-> TRUE,
          before |-> SubSeq(line, 1, Min(at) - 1),
          after |-> trim_start(SubSeq(line, Min(at) + 1, Len(line)))]

\* Mutant of split_once: a line without a colon is a name with an empty value.
split_once_or_whole(line) ==
    LET at == {i \in 1..Len(line) : line[i] = ":"} IN
    IF at = {} THEN [some |-> TRUE, before |-> line, after |-> <<>>]
    ELSE [some |-> TRUE,
          before |-> SubSeq(line, 1, Min(at) - 1),
          after |-> SubSeq(line, Min(at) + 1, Len(line))]

\* next_line.split_once(":"): None, or the text before and after the FIRST colon.

split_once(line) ==
    LET at == {i \in 1..Len(line) : line[i] = ":"} IN
    IF at = {} THEN [some |-> FALSE, before |-> <<>>, after |-> <<>>]
    ELSE [some |-> TRUE,
          before |-> SubSeq(line, 1, Min(at) - 1),
          after |-> SubSeq(line, Min(at) + 1, Len(line))]

\* Iterator::collect::<String>() over the remaining lines: they are
\* concatenated with nothing between them.
RECURSIVE collect(_)
collect(ls) ==
    IF ls = <<>> THEN <<>> ELSE Head(ls) \o collect(Tail(ls))

-----------------------------------------------------------------------------
(* The parser                                                              *)

\* CGIResponseHeaderMap::new()
EmptyHeaderMap == [k \in {} |-> <<>>]

\* Mutant of insert: an earlier value is kept (entry().or_insert()).
insert_keep_first(headers, key, value) ==
    [k \in DOMAIN headers \cup {key} |->
        IF k \in DOMAIN headers THEN headers[k] ELSE value]

\* HashMap::insert: a later value replaces an earlier one.
insert(headers, key, value) ==
    [k \in DOMAIN headers \cup {key} |-> IF k = key THEN value ELSE headers[k]]

\* The two ways parse_cgi_headers fails, told apart by what it logs.
MalformedOutput == "Malformed CGI response"
InvalidHeaderLine == "Invalid CGI header"

\* parse_cgi_headers, from the lines not yet consumed and the headers so far:
\* the result, and the lines it leaves in the iterator.
RECURSIVE parse_cgi_headers_loop(_, _)
parse_cgi_headers_loop(output_lines, headers) ==
    IF output_lines = <<>>
    THEN [ok |-> FALSE, err |-> MalformedOutput, headers |-> EmptyHeaderMap,
          rest |-> <<>>]
    ELSE LET next_line == Head(output_lines)
             split_line == split_once(next_line)
         IN  IF next_line = <<>>
             THEN [ok |-> TRUE, err |-> "", headers |-> headers,
                   rest |-> Tail(output_lines)]
             ELSE IF ~split_line.some
             THEN [ok |-> FALSE, err |-> InvalidHeaderLine,
                   headers |-> EmptyHeaderMap, rest |-> Tail(output_lines)]
             ELSE LET header_value == from_str(split_line.before) IN
                  IF header_value.ok
                  THEN parse_cgi_headers_loop(Tail(output_lines),
                           insert(headers, header_value.key, split_line.after))
                  ELSE parse_cgi_headers_loop(Tail(output_lines), headers)

parse_cgi_headers(output_lines) ==
    parse_cgi_headers_loop(output_lines, EmptyHeaderMap)

\* Mutant of parse_cgi_response: a failure of parse_cgi_headers is replaced
\* by an empty header map (unwrap_or_default).
parse_cgi_response_lenient(output) ==
    LET response_headers == parse_cgi_headers(lines(output)) IN
    [ok |-> TRUE, err |-> "", headers |-> response_headers.headers,
     body |-> collect(response_headers.rest)]

\* parse_cgi_response: Err(()) or Ok(CGIScriptResponse { headers, body }).
parse_cgi_response(output) ==
    LET response_headers == parse_cgi_headers(lines(output)) IN
    IF ~response_headers.ok
    THEN [ok |-> FALSE, err |-> response_headers.err,
          headers |-> EmptyHeaderMap, body |-> <<>>]
    ELSE [ok |-> TRUE, err |-> "", headers |-> response_headers.headers,
          body |-> collect(response_headers.rest)]

-----------------------------------------------------------------------------
(* The classifier                                                          *)

\* The StatusCode constants the source names.
OK == 200
FOUND == 302
INTERNAL_SERVER_ERROR == 500

\* A response: its status, its headers as <<name, value>> pairs, its body.
NoResponse == [status |-> 0, headers |-> {}, body |-> <<>>]

\* generate_error_response(status): the error page of the surrounding server,
\* a response of that status with no headers of this module and no body.
generate_error_response(status) ==
    [status |-> status, headers |-> {}, body |-> <<>>]

DigitValue(c) == (CHOOSE i \in 1..Len(Digits) : Digits[i] = c) - 1

IsDigit(c) == \E i \in 1..Len(Digits) : Digits[i] = c

\* StatusCode::from_str: exactly three ASCII digits, the first not "0".
StatusCode_from_str(s) ==
    IF /\ Len(s) = 3
       /\ \A i \in 1..3 : IsDigit(s[i])
       /\ s[1] # "0"
    THEN [ok |-> TRUE,
          value |-> 100 * DigitValue(s[1]) + 10 * DigitValue(s[2])
                        + DigitValue(s[3])]
    ELSE [ok |-> FALSE, value |-> 0]

\* StatusCode::OK.as_str()
StatusCode_as_str(status) ==
    <<Digits[(status \div 100) + 1], Digits[((status \div 10) % 10) + 1],
      Digits[(status % 10) + 1]>>

\* The characters of the model that HeaderValue refuses (control characters)
\* and that Uri refuses in a path (control characters and the space).
ControlChars == {"\r", "\n"}

HeaderValueValid(value) == \A i \in 1..Len(value) : value[i] \notin ControlChars

UriValid(location) ==
    \A i \in 1..Len(location) : location[i] \notin ControlChars \cup {" "}

starts_with(s, c) == Len(s) > 0 /\ s[1] = c

\* What StaticRequestHandler::handle_request may return: None or a response.
NoHandlerResult == [some |-> FALSE, response |-> NoResponse]

StaticHandlerResults ==
    { NoHandlerResult,
      [some |-> TRUE,
       response |-> [status |-> 200, headers |-> {}, body |-> <<"h","i">>]],
      [some |-> TRUE,
       response |-> [status |-> 404, headers |-> {}, body |-> <<>>]] }

\* local_redirect, client_redirect and document_response.
\* Each builder returns the response, the requests it handed to the static
\* handler, the statuses it started a Response::builder() with, and the
\* handler's answer when it asked.

local_redirect(location, handler) ==
    IF ~UriValid(location)
    THEN [response |-> generate_error_response(INTERNAL_SERVER_ERROR),
          handled |-> <<>>, built |-> {}, handler |-> NoHandlerResult]
    ELSE LET static_request ==
                 [method |-> "GET", uri |-> location, body |-> <<>>]
         IN  [response |-> IF handler.some THEN handler.response
                           ELSE generate_error_response(INTERNAL_SERVER_ERROR),
              handled |-> <<static_request>>, built |-> {},
              handler |-> handler]

client_redirect(location) ==
    [response |-> IF HeaderValueValid(location)
                  THEN [status |-> FOUND,
                        headers |-> {<<"location", location>>},
                        body |-> <<>>]
                  ELSE generate_error_response(INTERNAL_SERVER_ERROR),
     handled |-> <<>>, built |-> {FOUND}, handler |-> NoHandlerResult]

\* Mutant of document_response: a Status that is no status code falls back to
\* 200 (unwrap_or(StatusCode::OK)).
document_response_status_fallback(headers, body) ==
    LET status_text == IF "Status" \in DOMAIN headers THEN headers["Status"]
                       ELSE StatusCode_as_str(OK)
        parsed == StatusCode_from_str(status_text)
        status == IF parsed.ok THEN parsed.value ELSE OK
        error == [response |-> generate_error_response(INTERNAL_SERVER_ERROR),
                  handled |-> <<>>, built |-> {}, handler |-> NoHandlerResult]
    IN  IF "ContentType" \notin DOMAIN headers THEN error
        ELSE [response |-> IF HeaderValueValid(headers["ContentType"])
                           THEN [status |-> status,
                                 headers |-> {<<"content-type",
                                                headers["ContentType"]>>},
                                 body |-> body]
                           ELSE generate_error_response(INTERNAL_SERVER_ERROR),
              handled |-> <<>>, built |-> {status},
              handler |-> NoHandlerResult]

\* Mutant of document_response: the Status header is not read.
document_response_ignores_status(headers, body) ==
    LET error == [response |-> generate_error_response(INTERNAL_SERVER_ERROR),
                  handled |-> <<>>, built |-> {}, handler |-> NoHandlerResult]
    IN  IF "ContentType" \notin DOMAIN headers THEN error
        ELSE [response |-> IF HeaderValueValid(headers["ContentType"])
                           THEN [status |-> OK,
                                 headers |-> {<<"content-type",
                                                headers["ContentType"]>>},
                                 body |-> body]
                           ELSE generate_error_response(INTERNAL_SERVER_ERROR),
              handled |-> <<>>, built |-> {OK},
              handler |-> NoHandlerResult]

\* document_response: the status from the Status header or 200, the declared
\* content type, the body; 500 when either header is unusable.
document_response(headers, body) ==
    LET status_text == IF "Status" \in DOMAIN headers THEN headers["Status"]
                       ELSE StatusCode_as_str(OK)
        status == StatusCode_from_str(status_text)
        error == [response |-> generate_error_response(INTERNAL_SERVER_ERROR),
                  handled |-> <<>>, built |-> {}, handler |-> NoHandlerResult]
    IN  IF ~status.ok THEN error
        ELSE IF "ContentType" \notin DOMAIN headers THEN error
        ELSE [response |-> IF HeaderValueValid(headers["ContentType"])
                           THEN [status |-> status.value,
                                 headers |-> {<<"content-type",
                                                headers["ContentType"]>>},
                                 body |-> body]
                           ELSE generate_error_response(INTERNAL_SERVER_ERROR),
              handled |-> <<>>, built |-> {status.value},
              handler |-> NoHandlerResult]

\* Mutant of convert_cgi_response_to_http: every Location is a client
\* redirect.
convert_always_client_redirect(response, handler) ==
    IF "Location" \in DOMAIN response.headers
    THEN client_redirect(response.headers["Location"])
    ELSE document_response(response.headers, response.body)

\* Mutant of convert_cgi_response_to_http: a declared content type makes the
\* output a document before Location is looked at.
convert_document_first(response, handler) ==
    IF "ContentType" \in DOMAIN response.headers
    THEN document_response(response.headers, response.body)
    ELSE IF "Location" \in DOMAIN response.headers
    THEN LET location == response.headers["Location"] IN
         IF starts_with(location, "/")
         THEN local_redirect(location, handler)
         ELSE client_redirect(location)
    ELSE document_response(response.headers, response.body)

\* convert_cgi_response_to_http: Location decides first, between the internal
\* re-dispatch and the client redirect; without it the output is a document.
convert_cgi_response_to_http(response, handler) ==
    IF "Location" \in DOMAIN response.headers
    THEN LET location == response.headers["Location"] IN
         IF starts_with(location, "/")
         THEN local_redirect(location, handler)
         ELSE client_redirect(location)
    ELSE document_response(response.headers, response.body)

-----------------------------------------------------------------------------
(* The script outputs of the model                                         *)

\* The lines a script writes before the empty line.
HeaderLinePool ==
    { <<"h","e","l","l","o">>,
      <<"C","o","n","t","e","n","t","-","T","y","p","e",":","t","e","x","t","/","p","l","a","i","n">>,
      <<"C","O","N","T","E","N","T","-","T","Y","P","E",":"," ","a",":","b">>,
      <<"c","o","n","t","e","n","t","_","t","y","p","e",":","x">>,
      <<"C","o","n","t","e","n","t","-","T","y","p","e",":","a","\r","b">>,
      <<"L","o","c","a","t","i","o","n",":","/","f","o","o">>,
      <<"l","o","c","a","t","i","o","n",":"," ","/","f","o","o">>,
      <<"L","O","C","A","T","I","O","N",":","h","t","t","p",":","/","/","x">>,
      <<"L","o","c","a","t","i","o","n",":","/","f"," ","o">>,
      <<"L","o","c","a","t","i","o","n",":","h","\r","x">>,
      <<"S","t","a","t","u","s",":","2","0","1">>,
      <<"s","t","a","t","u","s",":"," ","2","0","1">>,
      <<"S","T","A","T","U","S",":","a","b","c">>,
      <<"X","-","C","u","s","t","o","m",":","1">> }

\* The documents a script writes after the empty line, as their lines: none,
\* one line, several lines, a document with an empty line of its own, and one
\* whose first line reads as a header.
Documents ==
    { <<>>,
      << <<"h","e","l","l","o">> >>,
      << <<"h","e","l","l","o">>, <<"h","i">> >>,
      << <<>>, <<"h","e","l","l","o">> >>,
      << <<"L","o","c","a","t","i","o","n",":","/","f","o","o">>,
         <<"h","i">> >> }

\* How a script ends its lines, and whether it ends the last one.
LineEndings ==
    { [eol |-> <<"\n">>, final |-> FALSE],
      [eol |-> <<"\n">>, final |-> TRUE],
      [eol |-> <<"\r","\n">>, final |-> TRUE] }

\* The lines ls written with the line ending eol, the last one with or
\* without it.
RECURSIVE Written(_, _, _)
Written(ls, eol, final) ==
    IF ls = <<>> THEN <<>>
    ELSE IF Len(ls) = 1 THEN Head(ls) \o (IF final THEN eol ELSE <<>>)
    ELSE Head(ls) \o eol \o Written(Tail(ls), eol, final)

SeqsUpTo(S, n) == UNION { [1..k -> S] : k \in 0..n }

\* Header lines, then an empty line or none, then document lines.
ScriptOutputs ==
    { Written(hs \o sep \o bs, e.eol, e.final) :
        hs \in SeqsUpTo(HeaderLinePool, MaxHeaderLines),
        sep \in { <<>>, << <<>> >> },
        bs \in Documents,
        e \in LineEndings }

-----------------------------------------------------------------------------
(* The state machine: one script output is parsed, then converted          *)

NotParsed == [ok |-> FALSE, err |-> "", headers |-> EmptyHeaderMap, body |-> <<>>]

Init ==
    /\ pc = "start"
    /\ cgi_output \in ScriptOutputs
    /\ cgi_response = NotParsed
    /\ handler_result = NoHandlerResult
    /\ handled = <<>>
    /\ built = {}
    /\ http_response = NoResponse

ParseCgiResponse ==
    /\ pc = "start"
    /\ cgi_response' = parse_cgi_response(cgi_output)
    /\ pc' = IF cgi_response'.ok THEN "parsed" ELSE "parse_failed"
    /\ UNCHANGED <<cgi_output, handler_result, handled, built, http_response>>

ConvertCgiResponseToHttp ==
    /\ pc = "parsed"
    /\ \E handler \in StaticHandlerResults :
         LET out == convert_cgi_response_to_http(cgi_response, handler) IN
         /\ http_response' = out.response
         /\ handled' = out.handled
         /\ built' = out.built
         /\ handler_result' = out.handler
    /\ pc' = "responded"
    /\ UNCHANGED <<cgi_output, cgi_response>>

Next == ParseCgiResponse \/ ConvertCgiResponseToHttp

Spec == Init /\ [][Next]_vars

TypeOK ==
    /\ pc \in {"start", "parsed", "parse_failed", "responded"}
    /\ cgi_response.ok \in BOOLEAN
    /\ DOMAIN cgi_response.headers \subseteq CGIResponseHeader
    /\ http_response.status \in {0, OK, 201, FOUND, 404, INTERNAL_SERVER_ERROR}

-----------------------------------------------------------------------------
(* The script output as the claims describe it                             *)

Colons(line) == {i \in 1..Len(line) : line[i] = ":"}

HasColon(line) == Colons(line) # {}

NameOf(line) == SubSeq(line, 1, Min(Colons(line)) - 1)

ValueOf(line) == SubSeq(line, Min(Colons(line)) + 1, Len(line))

\* The lines of the output; whether one is empty; the indexes of the lines
\* before the first empty line (all of them when there is none) and after it;
\* whether every line before it has a colon; the raw text after its line
\* ending.
Output ==
    LET pieces == split_inclusive(cgi_output)
        ls == [i \in 1..Len(pieces) |-> strip_line_ending(pieces[i])]
        empty == {i \in 1..Len(ls) : ls[i] = <<>>}
        sep == IF empty = {} THEN Len(ls) + 1 ELSE Min(empty)
    IN  [lines |-> ls,
         separated |-> empty # {},
         header |-> 1..(sep - 1),
         body |-> (sep + 1)..Len(ls),
         wellformed |-> \A i \in 1..(sep - 1) : HasColon(ls[i]),
         after |-> collect(SubSeq(pieces, sep + 1, Len(pieces)))]

Parsed == pc # "start"

\* The header lines of the output o whose name is h in any letter case.
LinesNaming(o, h) ==
    {i \in o.header :
        /\ HasColon(o.lines[i])
        /\ eq_ignore_ascii_case(NameOf(o.lines[i]), TrainCase(h))}

\* A name without its letter case, hyphens and underscores.
RECURSIVE StyleKey(_)
StyleKey(name) ==
    IF name = <<>> THEN <<>>
    ELSE IF Head(name) \in {"-", "_"} THEN StyleKey(Tail(name))
    ELSE <<to_ascii_lowercase(Head(name))>> \o StyleKey(Tail(name))

-----------------------------------------------------------------------------
(* The claims                                                              *)

\* C1: when an empty line follows zero or more header lines that each contain
\* a colon, parsing succeeds and the body is the raw text strictly after that
\* first empty line, line breaks included.
C1_BodyIsRawTextAfterSeparator ==
    Parsed =>
        LET o == Output IN
        (o.separated /\ o.wellformed)
            => (cgi_response.ok /\ cgi_response.body = o.after)

\* C2 as stated: an output without an empty line fails with MalformedOutput,
\* whatever its header lines look like.
C2_NoSeparatorIsMalformedOutput ==
    Parsed =>
        LET o == Output IN
        ~o.separated
            => (~cgi_response.ok /\ cgi_response.err = MalformedOutput)

\* C2, amended: an output without an empty line fails and yields no header
\* map and no body; the failure is MalformedOutput when every line contains a
\* colon and InvalidHeaderLine when some line has none.
C2_NoSeparatorFails ==
    Parsed =>
        LET o == Output IN
        ~o.separated
            => /\ pc = "parse_failed"
               /\ ~cgi_response.ok
               /\ cgi_response.headers = EmptyHeaderMap
               /\ cgi_response.body = <<>>
               /\ cgi_response.err = IF o.wellformed THEN MalformedOutput
                                     ELSE InvalidHeaderLine

C2_Witness ==
    /\ Parsed
    /\ cgi_response.err = MalformedOutput
    /\ LET o == Output IN
       /\ ~o.separated
       /\ Len(o.lines) >= 2
       /\ LinesNaming(o, "Status") # {}

\* C3: parsing fails with InvalidHeaderLine exactly when a line without a
\* colon occurs before the first empty line; a line without a colon after it
\* never makes the parse fail.
C3_InvalidHeaderLineOnlyBeforeSeparator ==
    Parsed =>
        LET o == Output IN
        /\ (cgi_response.err = InvalidHeaderLine) <=> ~o.wellformed
        /\ (o.separated /\ o.wellformed) => cgi_response.ok

C3_Witness ==
    /\ Parsed
    /\ cgi_response.ok
    /\ LET o == Output IN
       /\ o.header # {}
       /\ \E i \in o.body : o.lines[i] # <<>> /\ ~HasColon(o.lines[i])

C9_LastLineFirstColonUntrimmed ==
    (Parsed /\ cgi_response.ok) =>
        LET o == Output IN
        \A h \in CGIResponseHeader :
            LET naming == LinesNaming(o, h) IN
            IF naming = {} THEN h \notin DOMAIN cgi_response.headers
            ELSE /\ h \in DOMAIN cgi_response.headers
                 /\ cgi_response.headers[h] = ValueOf(o.lines[Max(naming)])

C9_Witness ==
    /\ Parsed
    /\ cgi_response.ok
    /\ "ContentType" \in DOMAIN cgi_response.headers
    /\ LET o == Output
           naming == LinesNaming(o, "ContentType")
       IN  /\ Cardinality(naming) = 2
           /\ \E i \in naming :
                ValueOf(o.lines[i]) # cgi_response.headers["ContentType"]
           /\ Cardinality(Colons(o.lines[Max(naming)])) = 2
           /\ starts_with(cgi_response.headers["ContentType"], " ")

Responded == pc = "responded"

InternalServerError == generate_error_response(INTERNAL_SERVER_ERROR)

\* C5: a Location that starts with "/" is re-dispatched internally: no 302
\* and no other response is constructed, the static handler gets a GET for
\* that path with an empty body and its response is returned unchanged; the
\* result is 500 when the request cannot be built or the handler returns
\* none; Status, Content-Type and the body play no part.
C5_LocalLocationIsRedispatched ==
    (Responded /\ "Location" \in DOMAIN cgi_response.headers) =>
        LET location == cgi_response.headers["Location"] IN
        starts_with(location, "/") =>
            /\ built = {}
            /\ IF UriValid(location)
               THEN /\ handled =
                         << [method |-> "GET", uri |-> location, body |-> <<>>] >>
                    /\ http_response =
                         IF handler_result.some THEN handler_result.response
                         ELSE InternalServerError
               ELSE /\ handled = <<>>
                    /\ http_response = InternalServerError

C5_Witness ==
    /\ Responded
    /\ DOMAIN cgi_response.headers = {"Location", "ContentType"}
    /\ starts_with(cgi_response.headers["Location"], "/")
    /\ cgi_response.body # <<>>
    /\ Len(handled) = 1
    /\ handler_result.some
    /\ http_response = handler_result.response

\* C6: a Location that does not start with "/" gives a 302 whose location
\* header is the raw value and whose body is empty, or 500 when that value is
\* no legal header value; Status, Content-Type and the body are ignored and
\* the static handler is not invoked.
C6_OtherLocationIsClientRedirect ==
    (Responded /\ "Location" \in DOMAIN cgi_response.headers) =>
        LET location == cgi_response.headers["Location"] IN
        ~starts_with(location, "/") =>
            /\ handled = <<>>
            /\ built = {FOUND}
            /\ http_response =
                 IF HeaderValueValid(location)
                 THEN [status |-> FOUND,
                       headers |-> {<<"location", location>>},
                       body |-> <<>>]
                 ELSE InternalServerError

C6_Witness ==
    /\ Responded
    /\ DOMAIN cgi_response.headers = {"Location", "ContentType"}
    /\ ~starts_with(cgi_response.headers["Location"], "/")
    /\ cgi_response.body # <<>>
    /\ http_response.status = FOUND
    /\ http_response.body = <<>>

\* C7: without Location, the response is 500 whenever Content-Type is absent
\* and whenever Status is present and is no status code; the caller always
\* gets a response, never an error.
C7_DocumentErrorsAre500 ==
    Responded =>
        /\ http_response.status \in 100..999
        /\ "Location" \notin DOMAIN cgi_response.headers =>
             /\ "ContentType" \notin DOMAIN cgi_response.headers
                    => http_response = InternalServerError
             /\ ( /\ "Status" \in DOMAIN cgi_response.headers
                  /\ ~StatusCode_from_str(cgi_response.headers["Status"]).ok )
                    => http_response = InternalServerError
             /\ handled = <<>>

C7_Witness ==
    /\ Responded
    /\ DOMAIN cgi_response.headers = {"ContentType", "Status"}
    /\ HeaderValueValid(cgi_response.headers["ContentType"])
    /\ ~StatusCode_from_str(cgi_response.headers["Status"]).ok
    /\ cgi_response.body # <<>>
    /\ http_response = InternalServerError

\* The response of a document: the status of the Status header, or 200
\* without one, the declared content type and the body.
DocumentOf(response) ==
    [status |-> IF "Status" \in DOMAIN response.headers
                THEN StatusCode_from_str(response.headers["Status"]).value
                ELSE OK,
     headers |-> {<<"content-type", response.headers["ContentType"]>>},
     body |-> response.body]

DocumentCase ==
    /\ Responded
    /\ "Location" \notin DOMAIN cgi_response.headers
    /\ "ContentType" \in DOMAIN cgi_response.headers
    /\ "Status" \in DOMAIN cgi_response.headers
           => StatusCode_from_str(cgi_response.headers["Status"]).ok

\* C8 as stated: without Location and with Content-Type, the response has
\* the status of a valid Status header, or 200 without one, the declared
\* content type and the parsed body.
C8_DocumentIsReturned ==
    DocumentCase => http_response = DocumentOf(cgi_response)

\* C8, amended: as stated when the Content-Type value is a legal header
\* value; when it is not (it holds a control character) the response cannot
\* be constructed and the result is 500.
C8_DocumentIsReturnedIfConstructible ==
    DocumentCase =>
        /\ built = {DocumentOf(cgi_response).status}
        /\ http_response =
             IF HeaderValueValid(cgi_response.headers["ContentType"])
             THEN DocumentOf(cgi_response)
             ELSE InternalServerError

C8_Witness ==
    /\ DocumentCase
    /\ "Status" \in DOMAIN cgi_response.headers
    /\ http_response.status \notin {OK, INTERNAL_SERVER_ERROR}
    /\ http_response.body = cgi_response.body
    /\ http_response.body # <<>>

\* C10: from the script output to the response, the character right after
\* the first colon of the last Location line decides: "/" there gives the
\* internal re-dispatch, anything else (a space before a path included) gives
\* the client redirect with the untrimmed value and no call of the static
\* handler; the handler is called only when "/" follows the colon.
C10_UntrimmedLocationDecides ==
    Responded =>
        LET o == Output
            naming == LinesNaming(o, "Location")
        IN  IF naming = {} THEN handled = <<>> /\ FOUND \notin built
            ELSE LET line == o.lines[Max(naming)]
                     colon == Min(Colons(line))
                 IN  IF colon < Len(line) /\ line[colon + 1] = "/"
                     THEN /\ built = {}
                          /\ \/ Len(handled) = 1
                             \/ http_response = InternalServerError
                     ELSE /\ handled = <<>>
                          /\ built = {FOUND}
                          /\ \/ http_response =
                                  [status |-> FOUND,
                                   headers |-> {<<"location", ValueOf(line)>>},
                                   body |-> <<>>]
                             \/ http_response = InternalServerError

C10_Witness ==
    /\ Responded
    /\ http_response.status = FOUND
    /\ handled = <<>>
    /\ LET o == Output
           naming == LinesNaming(o, "Location")
       IN  /\ naming # {}
           /\ LET line == o.lines[Max(naming)]
                  colon == Min(Colons(line))
              IN  /\ Len(line) > colon + 1
                  /\ line[colon + 1] = " "
                  /\ line[colon + 2] = "/"
                  /\ http_response.headers = {<<"location", ValueOf(line)>>}

====
